---- MODULE Spec2Model ----
(***************************************************************************)
(* A model of git-diff-clone: the Myers shortest-edit-script search        *)
(* (myers_diff), the reconstruction of the path from its trace            *)
(* (myers_backtrack), the classification of the moves into edits          *)
(* (Differ.myers_git_diff) and the grouping of the edits into hunks with   *)
(* git-style headers (Differ.diff).                                        *)
(*                                                                         *)
(* Python lists are modelled as sequences: the element Python calls l[i]   *)
(* is l[i + 1] here, and a negative Python index counts from the end.      *)
(***************************************************************************)
EXTENDS Integers, Sequences, FiniteSets, TLC

\* ------------------------------------------------------------------ bounds

\* Longest document of the exhaustive family (all documents over Texts).
MaxLen == 4
\* Length of the old document of the edited family (distinct lines).
DocLen == 9
\* Most lines of the old document that the edited family changes.
MaxChanges == 2

\* Line texts of the exhaustive family.
Texts == {1, 2}
\* The text of a line that the new document adds: no line of BaseDoc has it.
NewText == DocLen + 1

\* Differ.BUFFER: the amount of context shown around edits.
BUFFER == 6

\* ------------------------------------------------------------ Python lists

\* Whether Python accepts l[i]: -len(l) <= i < len(l).
PyIn(l, i) == -Len(l) <= i /\ i < Len(l)

\* Python's l[i], for an index Python accepts.
PyGet(l, i) == IF i < 0 THEN l[Len(l) + i + 1] ELSE l[i + 1]

\* Python's l[i] = e.
PySet(l, i, e) ==
  [l EXCEPT ![IF i < 0 THEN Len(l) + i + 1 ELSE i + 1] = e]

\* Python's l[lo:hi] for 0 <= lo and 0 <= hi <= len(l).
PySlice(l, lo, hi) == SubSeq(l, lo + 1, hi)

Max2(p, q) == IF p >= q THEN p ELSE q
Min2(p, q) == IF p <= q THEN p ELSE q

\* ---------------------------------------------------------------- documents

\* Line.__init__: a line is its zero-based number and its text.
Line(num, text) == [num |-> num, text |-> text]

\* Line.__eq__: lines are equal when their texts are.
LineEq(l1, l2) == l1.text = l2.text

\* Document.lines: the lines of a file, numbered from 0.
Lines(texts) == [i \in 1..Len(texts) |-> Line(i - 1, texts[i])]

\* Edit.__init__
Edit(edit_type, old, new) == [edit_type |-> edit_type, old |-> old, new |-> new]

\* ------------------------------------------------------------------- inputs

\* Every document of at most MaxLen lines over Texts.
ShortDocs == UNION {[1..l -> Texts] : l \in 0..MaxLen}

\* The old document of the edited family: DocLen distinct lines.
BaseDoc == [i \in 1..DocLen |-> i]

\* The ways of editing BaseDoc: each of at most MaxChanges lines is replaced
\* by a new line, deleted, or preceded by a new line.
ChangeMaps ==
  UNION {[P -> {"replace", "delete", "insert"}] :
           P \in {Q \in SUBSET (1..DocLen) : Cardinality(Q) <= MaxChanges}}

RECURSIVE ApplyChanges(_, _)
ApplyChanges(c, i) ==
  IF i > DocLen THEN <<>>
  ELSE (IF i \notin DOMAIN c THEN <<BaseDoc[i]>>
        ELSE IF c[i] = "replace" THEN <<NewText>>
        ELSE IF c[i] = "insert" THEN <<NewText, BaseDoc[i]>>
        ELSE <<>>)
       \o ApplyChanges(c, i + 1)

\* The pairs of files the model diffs.
InputPairs ==
  {<<p, q>> : p \in ShortDocs, q \in ShortDocs}
    \cup {<<BaseDoc, ApplyChanges(c, 1)>> : c \in ChangeMaps}

\* -------------------------------------------------------------------- state

VARIABLES
  a,          \* doc1.lines(): the old file's lines
  b,          \* doc2.lines(): the new file's lines
  pc,         \* the position of the run of Differ.diff
  v,          \* myers_diff: the furthest-reach array
  d,          \* myers_diff: the round of the outer loop
  k,          \* myers_diff: the diagonal of the inner loop
  x,          \* myers_diff: the endpoint last computed
  y,
  trace,      \* myers_diff: the snapshots appended so far
  moves,      \* the moves myers_backtrack yields, in the order yielded
  diff,       \* the edit list myers_git_diff returns
  chunk_locs, \* Differ.diff: the (start, end) of each chunk
  hunks       \* Differ.diff: what is printed for each chunk

vars == <<a, b, pc, v, d, k, x, y, trace, moves, diff, chunk_locs, hunks>>

m == Len(a)
n == Len(b)
MAX == m + n

Init ==
  /\ \E p \in InputPairs : a = Lines(p[1]) /\ b = Lines(p[2])
  /\ pc = "myers_diff"
  /\ v = <<>>
  /\ d = 0
  /\ k = 0
  /\ x = 0
  /\ y = 0
  /\ trace = <<>>
  /\ moves = <<>>
  /\ diff = <<>>
  /\ chunk_locs = <<>>
  /\ hunks = <<>>

\* --------------------------------------------------------------- myers_diff

\* v = [-1 for i in range(2 * MAX + 1)]
InitialV == [i \in 1..(2 * MAX + 1) |-> -1]

\* myers_diff up to its loop: v[1] = 0 raises IndexError when v has one element.
MyersDiffStart ==
  /\ pc = "myers_diff"
  /\ IF PyIn(InitialV, 1)
       THEN /\ v' = PySet(InitialV, 1, 0)
            /\ pc' = "search"
       ELSE /\ v' = InitialV
            /\ pc' = "IndexError"
  /\ d' = 0
  /\ k' = 0
  /\ trace' = <<>>
  /\ UNCHANGED <<a, b, x, y, moves, diff, chunk_locs, hunks>>

\* Whether the step to diagonal kk in round dd goes down from diagonal kk + 1.
GoesDown(vv, dd, kk) ==
  kk = -dd \/ (kk # dd /\ PyGet(vv, kk - 1) < PyGet(vv, kk + 1))

\* The x the step to diagonal kk starts its snake from.
StepX(vv, dd, kk) ==
  IF GoesDown(vv, dd, kk) THEN PyGet(vv, kk + 1) ELSE PyGet(vv, kk - 1) + 1

\* while x < m and y < n and a[x] == b[y]: x, y = x + 1, y + 1
RECURSIVE Snake(_, _, _, _)
Snake(aa, bb, xx, yy) ==
  IF xx < Len(aa) /\ yy < Len(bb) /\ LineEq(PyGet(aa, xx), PyGet(bb, yy))
    THEN Snake(aa, bb, xx + 1, yy + 1)
    ELSE xx

\* if x >= n and y >= m: the test that ends the search.
ReachedEnd(xx, yy, mm, nn) == xx >= nn /\ yy >= mm

\* One pass of the inner loop, for diagonal k of round d.
SearchStep ==
  /\ pc = "search"
  /\ k <= d
  /\ LET x1 == Snake(a, b, StepX(v, d, k), StepX(v, d, k) - k)
         y1 == x1 - k
     IN /\ x' = x1
        /\ y' = y1
        /\ v' = PySet(v, k, x1)
        /\ IF ReachedEnd(x1, y1, m, n)
             THEN pc' = "returned" /\ k' = k
             ELSE pc' = "search" /\ k' = k + 2
  /\ UNCHANGED <<a, b, d, trace, moves, diff, chunk_locs, hunks>>

\* The loop written for d in range(MAX): one round short.
LastRoundShort(mm, nn) == mm + nn - 1

\* The last round of for d in range(MAX + 1).
LastRound(mm, nn) == mm + nn

\* The end of a round: trace.append(v[:]), then the next round, or the raise
\* that follows the loop.
RoundEnd ==
  /\ pc = "search"
  /\ k > d
  /\ trace' = Append(trace, v)
  /\ IF d + 1 <= LastRound(m, n)
       THEN /\ d' = d + 1
            /\ k' = -(d + 1)
            /\ pc' = "search"
       ELSE /\ d' = d
            /\ k' = k
            /\ pc' = "SESError"
  /\ UNCHANGED <<a, b, v, x, y, moves, diff, chunk_locs, hunks>>

\* ---------------------------------------------------------- myers_backtrack

\* Whether the previous diagonal is kk + 1, by the test of the search.
BackGoesDown(vv, dd, kk) ==
  kk = -dd \/ (kk # dd /\ PyGet(vv, kk - 1) < PyGet(vv, kk + 1))

\* prev_k
PrevK(vv, dd, kk) == IF BackGoesDown(vv, dd, kk) THEN kk + 1 ELSE kk - 1

\* Whether Python accepts the indices one pass of the loop reads v at.
BackIndexOk(vv, dd, kk) ==
  /\ (kk = -dd \/ kk = dd) \/ (PyIn(vv, kk - 1) /\ PyIn(vv, kk + 1))
  /\ PyIn(vv, PrevK(vv, dd, kk))

\* while x > prev_x and y > prev_y: yield (x - 1, y - 1, x, y)
RECURSIVE SnakeBack(_, _, _, _)
SnakeBack(xx, yy, px, py) ==
  IF xx > px /\ yy > py
    THEN <<<<xx - 1, yy - 1, xx, yy>>>> \o SnakeBack(xx - 1, yy - 1, px, py)
    ELSE <<>>

\* if d > 0: yield (prev_x, prev_y, x, y)
BackStep(dd, px, py, xx, yy) ==
  IF dd > 0 THEN <<<<px, py, xx, yy>>>> ELSE <<>>

\* The loop over the reversed trace from snapshot dd down, at (xx, yy), then
\* the final snake to the origin: the moves yielded, and whether an index
\* was out of range.
RECURSIVE BackLoop(_, _, _, _)
BackLoop(tr, dd, xx, yy) ==
  IF dd < 0 THEN [moves |-> SnakeBack(xx, yy, 0, 0), err |-> FALSE]
  ELSE LET vv == tr[dd + 1]
           kk == xx - yy
       IN IF ~BackIndexOk(vv, dd, kk) THEN [moves |-> <<>>, err |-> TRUE]
          ELSE LET prev_k == PrevK(vv, dd, kk)
                   prev_x == PyGet(vv, prev_k)
                   prev_y == prev_x - prev_k
                   sn == SnakeBack(xx, yy, prev_x, prev_y)
                   x2 == xx - Len(sn)
                   y2 == yy - Len(sn)
                   rest == BackLoop(tr, dd - 1, prev_x, prev_y)
               IN [moves |-> sn \o BackStep(dd, prev_x, prev_y, x2, y2)
                               \o rest.moves,
                   err |-> rest.err]

\* myers_backtrack(trace, a, b): it starts from (len(a), len(b)) at the last
\* snapshot of the trace.
MyersBacktrack(tr, aa, bb) == BackLoop(tr, Len(tr) - 1, Len(aa), Len(bb))

\* myers_git_diff draws the moves of the generator.
Backtrack ==
  /\ pc = "returned"
  /\ LET r == MyersBacktrack(trace, a, b)
     IN /\ moves' = r.moves
        /\ pc' = IF r.err THEN "IndexError" ELSE "backtracked"
  /\ UNCHANGED <<a, b, v, d, k, x, y, trace, diff, chunk_locs, hunks>>

\* ----------------------------------------------------------- myers_git_diff

\* Python's None, for a line.
NoLine == [num |-> -1, text |-> -1]

\* l[i] if i < len(l) else None
LineAt(l, i) == IF i < Len(l) THEN PyGet(l, i) ELSE NoLine

\* Whether Python accepts the indices the classification of mv reads.
MoveIndexOk(aa, bb, mv) ==
  /\ mv[1] < Len(aa) => PyIn(aa, mv[1])
  /\ mv[2] < Len(bb) => PyIn(bb, mv[2])

\* The kind of edit a move (prev_x, prev_y, x, y) is.
EditType(mv) ==
  IF mv[3] = mv[1] THEN "insert"
  ELSE IF mv[4] = mv[2] THEN "delete"
  ELSE "equal"

\* The edits one move adds to the deque: none when either line is None.
EditsOf(aa, bb, mv) ==
  LET a_line == LineAt(aa, mv[1])
      b_line == LineAt(bb, mv[2])
  IN IF a_line # NoLine /\ b_line # NoLine
       THEN <<Edit(EditType(mv), a_line, b_line)>>
       ELSE <<>>

\* The loop over the moves from the i-th on: each edit is put at the left
\* of the deque.
RECURSIVE ClassifyFrom(_, _, _, _, _)
ClassifyFrom(aa, bb, mvs, i, deque) ==
  IF i > Len(mvs) THEN deque
  ELSE ClassifyFrom(aa, bb, mvs, i + 1, EditsOf(aa, bb, mvs[i]) \o deque)

Classify ==
  /\ pc = "backtracked"
  /\ IF \A i \in 1..Len(moves) : MoveIndexOk(a, b, moves[i])
       THEN /\ diff' = ClassifyFrom(a, b, moves, 1, <<>>)
            /\ pc' = "classified"
       ELSE /\ diff' = diff
            /\ pc' = "IndexError"
  /\ UNCHANGED <<a, b, v, d, k, x, y, trace, moves, chunk_locs, hunks>>

\* -------------------------------------------------------------- Differ.diff

\* diff_locs: the positions (from 0) of the edits that are not equal.
RECURSIVE DiffLocsFrom(_, _)
DiffLocsFrom(df, i) ==
  IF i > Len(df) THEN <<>>
  ELSE (IF df[i].edit_type # "equal" THEN <<i - 1>> ELSE <<>>)
       \o DiffLocsFrom(df, i + 1)

DiffLocs(df) == DiffLocsFrom(df, 1)

\* Python's None, for prev_loc and chunk_start.
NoLoc == -1

\* Whether two neighbouring changes stay in one chunk.
WithinBuffer(diff_loc, prev_loc) == diff_loc - prev_loc <= BUFFER

\* The loop over enumerate(diff_locs), from the entry numbered num.
RECURSIVE ChunkLoop(_, _, _, _, _)
ChunkLoop(locs, num, prev_loc, chunk_start, chunks) ==
  IF num >= Len(locs) THEN chunks
  ELSE LET diff_loc == locs[num + 1]
           last == (num = Len(locs) - 1)
       IN IF prev_loc = NoLoc
            THEN ChunkLoop(locs, num + 1, diff_loc, diff_loc, chunks)
          ELSE IF WithinBuffer(diff_loc, prev_loc) /\ ~last
            THEN ChunkLoop(locs, num + 1, diff_loc, chunk_start, chunks)
          ELSE IF ~last
            THEN ChunkLoop(locs, num + 1, diff_loc, diff_loc,
                           Append(chunks, <<chunk_start, prev_loc>>))
          ELSE ChunkLoop(locs, num + 1, prev_loc, chunk_start,
                         Append(chunks, <<chunk_start, diff_loc>>))

\* chunk_locs
ChunkLocs(locs) ==
  IF Len(locs) > 1 THEN ChunkLoop(locs, 0, NoLoc, NoLoc, <<>>)
  ELSE IF Len(locs) = 1 THEN <<<<0, 0>>>>
  ELSE <<>>

Group ==
  /\ pc = "classified"
  /\ chunk_locs' = ChunkLocs(DiffLocs(diff))
  /\ pc' = "grouped"
  /\ UNCHANGED <<a, b, v, d, k, x, y, trace, moves, diff, hunks>>

\* The bounds of to_print: diff[max(0, start - BUFFER):min(len(diff), end + 1 + BUFFER)]
WindowLo(start) == Max2(0, start - BUFFER)
WindowHi(df, end) == Min2(Len(df), end + 1 + BUFFER)

ToPrint(df, chunk) == PySlice(df, WindowLo(chunk[1]), WindowHi(df, chunk[2]))

\* The counters of the loop over to_print.
CountType(w, t) == Cardinality({i \in 1..Len(w) : w[i].edit_type = t})

\* old_length computed from the wrong counter.
OldLengthSwapped(w) == Len(w) - CountType(w, "delete")

\* The header's old_length and new_length.
OldLength(w) == Len(w) - CountType(w, "insert")
NewLength(w) == Len(w) - CountType(w, "delete")

\* What is printed for one chunk: the header's four numbers and the edits.
Hunk(df, chunk) ==
  LET w == ToPrint(df, chunk)
  IN [start |-> chunk[1],
      end |-> chunk[2],
      lo |-> WindowLo(chunk[1]),
      hi |-> WindowHi(df, chunk[2]),
      old_start |-> w[1].old.num,
      old_length |-> OldLength(w),
      new_start |-> w[1].new.num,
      new_length |-> NewLength(w),
      to_print |-> w]

\* The loop that prints each chunk: to_print[0] raises IndexError on an empty
\* window.
PrintHunks ==
  /\ pc = "grouped"
  /\ IF \A i \in 1..Len(chunk_locs) : ToPrint(diff, chunk_locs[i]) # <<>>
       THEN /\ hunks' = [i \in 1..Len(chunk_locs) |-> Hunk(diff, chunk_locs[i])]
            /\ pc' = "printed"
       ELSE /\ hunks' = hunks
            /\ pc' = "IndexError"
  /\ UNCHANGED <<a, b, v, d, k, x, y, trace, moves, diff, chunk_locs>>

Next ==
  \/ MyersDiffStart
  \/ SearchStep
  \/ RoundEnd
  \/ Backtrack
  \/ Classify
  \/ Group
  \/ PrintHunks

Spec == Init /\ [][Next]_vars

\* ------------------------------------------------------- reference notions

\* The old lines of the edits that are not inserts, in list order.
RECURSIVE OldLinesFrom(_, _)
OldLinesFrom(df, i) ==
  IF i > Len(df) THEN <<>>
  ELSE (IF df[i].edit_type # "insert" THEN <<df[i].old>> ELSE <<>>)
       \o OldLinesFrom(df, i + 1)

\* The new lines of the edits that are not deletes, in list order.
RECURSIVE NewLinesFrom(_, _)
NewLinesFrom(df, i) ==
  IF i > Len(df) THEN <<>>
  ELSE (IF df[i].edit_type # "delete" THEN <<df[i].new>> ELSE <<>>)
       \o NewLinesFrom(df, i + 1)

\* The length of a longest common subsequence of the first i lines of aa and
\* the first j lines of bb, by the textbook recurrence.
RECURSIVE LCS(_, _, _, _)
LCS(aa, bb, i, j) ==
  IF i = 0 \/ j = 0 THEN 0
  ELSE IF LineEq(aa[i], bb[j]) THEN LCS(aa, bb, i - 1, j - 1) + 1
  ELSE Max2(LCS(aa, bb, i - 1, j), LCS(aa, bb, i, j - 1))

\* The insert/delete-only edit distance of a and b.
EditDistance == m + n - 2 * LCS(a, b, m, n)

\* The edits of the list that are not equal.
Changes(df) == {i \in 1..Len(df) : df[i].edit_type # "equal"}

\* The positions at which myers_git_diff has returned its list.
HasDiff == pc \in {"classified", "grouped", "printed"}

\* The moves in origin-to-sink order.
Path == [i \in 1..Len(moves) |-> moves[Len(moves) + 1 - i]]

\* The moves of the path that are not diagonal steps.
NonDiagonal == {i \in 1..Len(moves) : moves[i][3] = moves[i][1] \/ moves[i][4] = moves[i][2]}

\* Whether position p (from 0) lies in the printed window of hunk h.
InWindow(h, p) == hunks[h].lo <= p /\ p < hunks[h].hi

\* Whether position p (from 0) lies in chunk c.
InChunk(c, p) == chunk_locs[c][1] <= p /\ p <= chunk_locs[c][2]

SameHunk(p, q) ==
  \E c \in 1..Len(chunk_locs) : InChunk(c, p) /\ InChunk(c, q)

DifferentHunks(p, q) ==
  /\ \E c1, c2 \in 1..Len(chunk_locs) :
       c1 # c2 /\ InChunk(c1, p) /\ InChunk(c2, q)
  /\ ~SameHunk(p, q)

\* The least element of a non-empty set of numbers.
Least(S) == CHOOSE i \in S : \A j \in S : i <= j

\* ------------------------------------------------------------------ claims

\* C1: reconstruction validity. In the edit list myers_git_diff returns, the
\* old lines of the non-insert edits are exactly A in order, and the new
\* lines of the non-delete edits are exactly B in order.
C1_Reconstruction ==
  HasDiff => /\ OldLinesFrom(diff, 1) = a
             /\ NewLinesFrom(diff, 1) = b

\* C2: minimal edit distance. The number of non-equal edits of the list
\* equals M + N - 2 * LCS(A, B).
C2_MinimalDistance ==
  HasDiff => Cardinality(Changes(diff)) = EditDistance

\* C3: identity law. Diffing A against itself, for A of any length >= 0,
\* completes without error, returns len(A) edits, all equal, and produces no
\* hunk.
C3_Identity ==
  a = b =>
    /\ pc \notin {"IndexError", "SESError"}
    /\ HasDiff => Len(diff) = m /\ Changes(diff) = {}
    /\ pc \in {"grouped", "printed"} => chunk_locs = <<>>
    /\ pc = "printed" => hunks = <<>>

\* C4: classification keeps every move. Each move yields exactly one edit,
\* in origin-to-sink order: a move with x = prev_x is an insert whose new
\* line is B[prev_y], a move with y = prev_y a delete whose old line is
\* A[prev_x], any other an equal edit; a side that is out of range is
\* recorded as absent and the edit is still emitted.
C4_KeepsEveryMove ==
  HasDiff =>
    /\ Len(diff) = Len(moves)
    /\ \A i \in 1..Len(diff) :
         /\ diff[i].edit_type = EditType(Path[i])
         /\ diff[i].edit_type = "insert" => diff[i].new = LineAt(b, Path[i][2])
         /\ diff[i].edit_type = "delete" => diff[i].old = LineAt(a, Path[i][1])

\* C5: hunk coverage. Every non-equal edit lies inside the printed window of
\* exactly one hunk.
C5_HunkCoverage ==
  pc = "printed" =>
    \A i \in Changes(diff) :
      Cardinality({h \in 1..Len(hunks) : InWindow(h, i - 1)}) = 1

\* C6: hunk merge rule. Two consecutive non-equal edits at positions p < q
\* are in the same hunk if q - p <= BUFFER and in different hunks if
\* q - p > BUFFER, the pair that ends with the last change included.
C6_MergeRule ==
  pc \in {"grouped", "printed"} =>
    \A i \in 1..(Len(DiffLocs(diff)) - 1) :
      LET p == DiffLocs(diff)[i]
          q == DiffLocs(diff)[i + 1]
      IN IF q - p <= BUFFER THEN SameHunk(p, q) ELSE DifferentHunks(p, q)

\* C7: hunk header arithmetic. For every hunk printed, old_length is the
\* number of non-insert edits of its window and new_length the number of
\* non-delete edits; old_start is the number of the old line of the first
\* non-insert edit of the window and new_start the number of the new line of
\* the first non-delete edit, whenever the window has such an edit.
C7_HeaderArithmetic ==
  pc = "printed" =>
    \A h \in 1..Len(hunks) :
      LET w == PySlice(diff, WindowLo(chunk_locs[h][1]),
                       WindowHi(diff, chunk_locs[h][2]))
          olds == {i \in 1..Len(w) : w[i].edit_type # "insert"}
          news == {i \in 1..Len(w) : w[i].edit_type # "delete"}
      IN /\ hunks[h].old_length = Cardinality(olds)
         /\ hunks[h].new_length = Cardinality(news)
         /\ olds # {} => hunks[h].old_start = w[Least(olds)].old.num
         /\ news # {} => hunks[h].new_start = w[Least(news)].new.num

\* Two hunks are printed: the window of one starts with a change, holds equal
\* edits too, counts different old and new lengths and is cut before the end
\* of the list; the window of one starts after the first edit of the list.
C7_Witness ==
  /\ pc = "printed"
  /\ \E h \in 1..Len(hunks) :
       /\ hunks[h].to_print[1].edit_type # "equal"
       /\ hunks[h].hi < Len(diff)
       /\ hunks[h].old_length # hunks[h].new_length
       /\ \E i \in 1..Len(hunks[h].to_print) :
            hunks[h].to_print[i].edit_type = "equal"
  /\ \E h \in 1..Len(hunks) : hunks[h].lo > 0

\* C8: termination at the sink. Whenever myers_diff returns, the endpoint
\* just computed is (M, N); it returns at the first round and diagonal whose
\* furthest reach is (M, N), so the trace holds one snapshot per round
\* 0..D-1, D the edit distance.
C8_ReturnsAtSink ==
  /\ pc = "returned" => x = m /\ y = n /\ Len(trace) = EditDistance
  /\ pc = "search" /\ (d > 0 \/ k > 0) => ~(x = m /\ y = n)

\* C9: the backtracked path is a path of the edit graph. In origin-to-sink
\* order the moves start at (0, 0), end at (M, N), are connected, stay within
\* 0..M and 0..N, each is one step (diagonal only where the lines are equal,
\* rightward or downward), and there is one non-diagonal move per distance
\* level 1..D.
C9_ValidPath ==
  pc = "backtracked" =>
    /\ Len(moves) = 0 => m = 0 /\ n = 0
    /\ Len(moves) > 0 =>
         /\ Path[1][1] = 0 /\ Path[1][2] = 0
         /\ Path[Len(Path)][3] = m /\ Path[Len(Path)][4] = n
    /\ \A i \in 1..(Len(Path) - 1) :
         Path[i][3] = Path[i + 1][1] /\ Path[i][4] = Path[i + 1][2]
    /\ \A i \in 1..Len(Path) :
         LET mv == Path[i]
         IN /\ mv[1] \in 0..m /\ mv[3] \in 0..m
            /\ mv[2] \in 0..n /\ mv[4] \in 0..n
            /\ \/ /\ mv[3] = mv[1] + 1 /\ mv[4] = mv[2] + 1
                  /\ LineEq(a[mv[1] + 1], b[mv[2] + 1])
               \/ mv[3] = mv[1] + 1 /\ mv[4] = mv[2]
               \/ mv[3] = mv[1] /\ mv[4] = mv[2] + 1
    /\ Cardinality(NonDiagonal) = EditDistance

\* C10: the internal-bound failure is unreachable. The search loop never
\* runs out of rounds: it is never past round M + N, no round M + N ends
\* without the return, and "SES is longer than max length" is never raised.
C10_NoSESError ==
  /\ pc # "SESError"
  /\ pc \in {"search", "returned"} => d <= MAX
  /\ pc = "search" /\ k > d => d < MAX

\* The search returns in the very last round, M + N, on non-empty files of
\* different lengths.
C10_Witness ==
  /\ pc = "returned"
  /\ d = MAX
  /\ m > 0 /\ n > 0 /\ m # n

====
